---- MODULE Spec2Model ----
(***************************************************************************)
(* casebuddy: the AI feedback pipeline (FeedbackService) over the          *)
(* Firestore collections aiFeedback and dailyLimits, its feedback parser,  *)
(* the similar-cases panel with its two cache tiers and the route          *)
(* /api/similar-cases.                                                     *)
(*                                                                         *)
(* Every generateFeedback call is a process that suspends at each await    *)
(* (getDocs, getDoc, the Gemini fetch, updateDoc/setDoc, addDoc); one      *)
(* action of the model is the code that runs when one await settles, up to *)
(* the next await, return or throw.                                        *)
(***************************************************************************)
EXTENDS Integers, Sequences, FiniteSets, TLC

(***************************************************************************)
(* Bounds of the model.                                                    *)
(***************************************************************************)
\* Number of calendar days (UTC date strings) the clock can show.
MaxDay == 2

\* Number of store operations that can be rejected in one run.
MaxFaults == 1

\* Number of steps of ClockStep the clock of the similar-cases panel can advance.
MaxClockSteps == 3

\* Largest topK a request to /api/similar-cases carries in the model.
MaxTopK == 2

\* Number of upvote clicks in one run.
MaxToggles == 4

\* Number of questions the admins can add in one run.
MaxSubmissions == 1

\* The calls that can be in flight at once (browser tabs / components).
Procs == {"p1", "p2"}

(***************************************************************************)
(* Program constants.                                                      *)
(***************************************************************************)
DAILY_LIMIT == 3

\* remainingToday reported for an admin
ADMIN_REMAINING == 999

\* minimum trimmed length of userAnswer
MIN_ANSWER_LENGTH == 50

\* SimilarCases.tsx: 24 hours in milliseconds
CACHE_DURATION == 24 * 60 * 60 * 1000

\* the topK fetchSimilarCases asks for
PANEL_TOP_K == 5

\* const { ..., topK = 5 } = req.body
DEFAULT_TOP_K == 5

ADMIN_EMAILS == {"ithatejesh@gmail.com", "ivsntejesh@gmail.com"}

(***************************************************************************)
(* The environment: signed-in users, submitted answers, model outputs.     *)
(***************************************************************************)
NullEmail == "<null>"

Users == {"alice", "root"}

\* user.email of the identity provider, as typed at sign-up
EmailOf(u) ==
    CASE u = "alice" -> "alice@example.com"
      [] u = "root"  -> "IVSNTejesh@Gmail.com"
      [] OTHER       -> NullEmail

\* String.prototype.toLowerCase on the e-mail addresses in use
ToLowerCase(e) ==
    CASE e = "IVSNTejesh@Gmail.com" -> "ivsntejesh@gmail.com"
      [] OTHER                      -> e

\* the answers feedback is requested for in the model
AnswerIds == {"a1", "a2", "a3", "a4", "a5"}

\* answers of alice whose feedback was generated earlier today
EarlierAnswerIds == <<"e1", "e2">>

\* how many of today's requests alice has already used when the model starts
PriorGenerations == {0, 2}

\* answer.content of each submitted answer: pad blanks around core non-blank text
UserAnswerOf(a) ==
    CASE a = "a1" -> [pad |-> 0,  core |-> 50]
      [] a = "a2" -> [pad |-> 0,  core |-> 200]
      [] a = "a3" -> [pad |-> 10, core |-> 49]
      [] a = "a4" -> [pad |-> 0,  core |-> 120]
      [] a = "a5" -> [pad |-> 30, core |-> 20]
      [] OTHER    -> [pad |-> 0,  core |-> 80]

\* answer.userId: the AI Feedback button is rendered on the user's own answers only
OwnerOf(a) == IF a \in {"a4", "a5"} THEN "root" ELSE "alice"

\* userAnswer.trim().length
TrimLength(ans) == ans.core

\* text the model returns (opaque to the pipeline until it is parsed)
Contents == {"feedback-A"}

Days == 1..MaxDay

\* the cases of the corpus (ids of the vectors in the index) and the cases the
\* similar-cases panel is shown for
Corpus == {"q1", "q2", "q3"}

QuestionIds == {"q1", "q2"}

\* the clock of the browser advances in steps of 12 hours
ClockStep == 12 * 60 * 60 * 1000

Times == {k * ClockStep : k \in 0..MaxClockSteps}

\* what index.query can answer: at most n matches, distinct ids of S, best first
RECURSIVE Rankings(_, _)
Rankings(S, n) ==
    IF n = 0 \/ S = {}
    THEN {<<>>}
    ELSE {<<>>} \cup
         UNION {{<<x>> \o t : t \in Rankings(S \ {x}, n - 1)} : x \in S}

(***************************************************************************)
(* State.                                                                  *)
(***************************************************************************)
VARIABLES
    today,        \* the date new Date().toISOString().split('T')[0] shows
    dailyLimits,  \* collection dailyLimits, keyed `${userId}_${date}`
    aiFeedback,   \* collection aiFeedback
    req,          \* the generateFeedback calls: arguments, locals, position
    faults        \* store operations rejected so far

\* the similar-cases panel (SimilarCases.tsx)
VARIABLES
    now,                \* Date.now(), in hours
    similarCasesCache,  \* the module-level Map of SimilarCases.tsx
    localStorage,       \* the entries similar_cases_${questionId} of localStorage
    lookup              \* the fetchSimilarCases call of the mounted panel

similarVars == <<now, similarCasesCache, localStorage, lookup>>

\* the route /api/similar-cases
VARIABLES
    apiRequest,   \* req.body and what index.query answered
    apiResponse   \* res.status(...).json(...)

handlerVars == <<apiRequest, apiResponse>>

\* the feedback parser (parseFeedbackContent)
VARIABLES
    content,      \* the text handed to parseFeedbackContent
    parsed        \* what it returned

parserVars == <<content, parsed>>

\* the admin's bulk indexer (AdminVectorDB)
VARIABLES
    batch         \* the indexAllCases run: component state, locals, position

indexerVars == <<batch>>

\* the upvote buttons of the answer lists (DailyQuestion, PastQuestions)
VARIABLES
    answerDoc,    \* the document answers/${answerId}: upvotes and upvotedBy
    answerViews,  \* each signed-in user's copy of the answer in component state
    upvote,       \* each user's pending upvote call
    toggles       \* upvote clicks so far

upvoteVars == <<answerDoc, answerViews, upvote, toggles>>

\* the question management of AdminPanel
VARIABLES
    questionDocs, \* collection questions: the isActive field of each document
    adminPanel    \* each open AdminPanel: its questions state and handler run

adminVars == <<questionDocs, adminPanel>>

\* the mounted feedback component (AIFeedbackSection / AIFeedbackModal)
VARIABLES
    component     \* its props, its useState values and its handler runs

componentVars == <<component>>

\* the variables of the admin and answer panels
panelVars == <<indexerVars, upvoteVars, adminVars, componentVars>>

feedbackVars == <<today, dailyLimits, aiFeedback, req, faults>>

\* the variables of the other components (none of them is touched by the pipeline)
otherVars == <<similarVars, handlerVars, parserVars, panelVars>>

vars == <<feedbackVars, similarVars, handlerVars, parserVars, panelVars>>

\* what the steps of each panel leave alone
indexerRest ==
    <<feedbackVars, similarVars, handlerVars, parserVars, upvoteVars, adminVars,
      componentVars>>
upvoteRest ==
    <<feedbackVars, similarVars, handlerVars, parserVars, indexerVars, adminVars,
      componentVars>>
adminRest ==
    <<feedbackVars, similarVars, handlerVars, parserVars, indexerVars, upvoteVars,
      componentVars>>
\* the component calls the pipeline, whose req it changes
componentRest ==
    <<today, dailyLimits, aiFeedback, faults, similarVars, handlerVars, parserVars,
      indexerVars, upvoteVars, adminVars>>

NoId == <<"none", 0>>

NoDoc == [exists |-> FALSE, requestCount |-> 0]

NoResult == [kind |-> "none", id |-> NoId]

\* Map.get answers undefined
NoEntry == [present |-> FALSE, data |-> <<>>, timestamp |-> 0]

\* localStorage.getItem answers null
NoItem == [present |-> FALSE, json |-> [data |-> <<>>, timestamp |-> 0]]

NoError == "null"

\* the panel before fetchSimilarCases has run: useState([]), useState(true), useState(null)
IdleLookup ==
    [pc |-> "idle", questionId |-> "q1", now |-> 0, similarCases |-> <<>>,
     loading |-> TRUE, error |-> NoError, remoteCalls |-> 0, remoteOk |-> FALSE]

\* no request to /api/similar-cases is being handled
IdleRequest ==
    [pc |-> "idle", method |-> "POST", questionId |-> "", complete |-> FALSE,
     topK |-> 0, matches |-> <<>>]

NoResponse == [status |-> 0, similarCases |-> <<>>]

\* a section the text does not have
NoSection == [style |-> "absent", body |-> "prose"]

\* a field parseFeedbackContent did not set
AbsentField == [present |-> FALSE, items |-> <<>>]

\* parseFeedbackContent has not been called
NotParsed ==
    [called |-> FALSE, strengths |-> AbsentField, improvements |-> AbsentField,
     missing |-> AbsentField, frameworks |-> AbsentField]

\* an answer as submitted: upvotes: 0, upvotedBy: []
NoUpvotes == [upvotes |-> 0, upvotedBy |-> {}]

\* no upvote call pending
IdleUpvote == [pc |-> "idle", handler |-> "", add |-> FALSE, upvotes |-> 0]

\* the AdminPanel components open at the same time (two admins, or two tabs)
AdminPanels == {"panel1", "panel2"}

\* document ids of the questions collection: two stored questions and the ids
\* addDoc hands out
StoredQuestions == {1, 2}
NewQuestions == 3..(2 + MaxSubmissions)
AllQuestions == StoredQuestions \cup NewQuestions

\* the collection before the run: question 1 is or is not the active one
StoredQuestionDocs(oneActive) ==
    [q \in AllQuestions |->
        IF q \in NewQuestions THEN "none"
        ELSE IF q = 1 /\ oneActive THEN "active" ELSE "inactive"]

NoQuestions == [q \in AllQuestions |-> "none"]

\* no handler of the panel is running
IdleHandler ==
    [pc |-> "idle", kind |-> "", questionId |-> 0, isActive |-> FALSE,
     activeQuestions |-> {}, questions |-> NoQuestions]

\* a panel whose fetchAllQuestions has shown the collection
LoadedPanel(docs) == [questions |-> docs, fetching |-> FALSE, run |-> IdleHandler]

\* the state of a component that is not on screen
NotMounted == <<>>

\* the useState values a render of the feedback component sees
ComponentState(loading, error, feedback, remaining) ==
    [loading |-> loading, error |-> error, feedback |-> feedback,
     remaining |-> remaining]

\* the component as mounted for an answer: loading false, error null,
\* feedback null, remaining 3; no handler has run
MountedComponent(answerId, signedIn) ==
    [answerId |-> answerId, user |-> signedIn,
     state |-> ComponentState(FALSE, NoError, NoId, DAILY_LIMIT),
     rendered |-> ComponentState(FALSE, NoError, NoId, DAILY_LIMIT),
     run |-> [p \in Procs |-> "none"],
     returnedEarly |-> FALSE]

NoMessage == [kind |-> "none", successCount |-> 0, failCount |-> 0, total |-> 0]

\* AdminVectorDB as mounted: the useState defaults, no run started
IdleBatch(version) ==
    [version |-> version, pc |-> "idle", indexing |-> FALSE,
     questions |-> <<>>, i |-> 0, successCount |-> 0, failCount |-> 0,
     progress |-> [current |-> 0, total |-> 0],
     status |-> "idle", message |-> NoMessage,
     time |-> 0, startedAt |-> 0, attempts |-> <<>>]

IdleReq ==
    [pc |-> "idle", answerId |-> "a1", userId |-> "alice",
     statsDate |-> 0, remaining |-> 0, content |-> "",
     incDate |-> 0, limitDoc |-> NoDoc,
     result |-> NoResult, calledModel |-> FALSE, writes |-> 0, charged |-> FALSE,
     readFailed |-> FALSE]

(***************************************************************************)
(* adminConfig and the pure helpers of FeedbackService.                    *)
(***************************************************************************)
\* a membership test that compares the address as it was typed
IsUserAdminCaseSensitive(email) ==
    IF email = NullEmail \/ email = ""
    THEN FALSE
    ELSE email \in ADMIN_EMAILS

IsUserAdmin(email) ==
    IF email = NullEmail \/ email = ""
    THEN FALSE
    ELSE ToLowerCase(email) \in ADMIN_EMAILS

Max(a, b) == IF a >= b THEN a ELSE b

\* the aiFeedback documents stored for an answer
MatchingFeedback(answerId) == {r \in aiFeedback : r.answerId = answerId}

\* a query that matches nothing
ExistingFeedbackNone(answerId) == {r \in aiFeedback : FALSE}

\* the documents query(feedbackRef, where('answerId', '==', answerId)) matches;
\* limit(1) hands back one of them as snapshot.docs[0]
ExistingFeedback(answerId) == {r \in aiFeedback : r.answerId = answerId}

\* key of the dailyLimits document `${userId}_${today}`
LimitKey(userId, date) == <<userId, date>>

\* stats.remainingToday of getUserDailyStats for a non-admin
RemainingToday(limitDoc) ==
    IF limitDoc.exists
    THEN Max(0, DAILY_LIMIT - limitDoc.requestCount)
    ELSE DAILY_LIMIT

\* a limit check that lets a remaining quota of 0 through
AllowedAtZero(remainingToday) == ~(remainingToday < 0)

\* canRequest.allowed of canRequestFeedback for a non-admin
Allowed(remainingToday) == ~(remainingToday <= 0)

\* the length check without trim()
TooShortUntrimmed(userAnswer) == userAnswer.pad + userAnswer.core < MIN_ANSWER_LENGTH

\* userAnswer.trim().length < 50
TooShort(userAnswer) == TrimLength(userAnswer) < MIN_ANSWER_LENGTH

\* the document incrementDailyCount writes after reading limitDoc
IncrementedDoc(limitDoc) ==
    IF limitDoc.exists
    THEN [exists |-> TRUE, requestCount |-> limitDoc.requestCount + 1]
    ELSE [exists |-> TRUE, requestCount |-> 1]

\* a document id derived from the answerId alone
FeedbackIdPerAnswer(answerId) == <<answerId, 1>>

\* the id addDoc gives a new aiFeedback document (opaque, unused so far)
NewFeedbackId(answerId) ==
    <<answerId, Cardinality({r \in aiFeedback : r.answerId = answerId}) + 1>>

(***************************************************************************)
(* How a call ends.                                                        *)
(***************************************************************************)
Returned(r, id) ==
    [r EXCEPT !.pc = "done", !.result = [kind |-> "ok", id |-> id],
              !.statsDate = 0, !.incDate = 0, !.limitDoc = NoDoc, !.content = ""]

Thrown(r, kind) ==
    [r EXCEPT !.pc = "done", !.result = [kind |-> kind, id |-> NoId],
              !.statsDate = 0, !.incDate = 0, !.limitDoc = NoDoc, !.content = ""]

\* the length check placed before the rate-limit throw
AfterCanRequestValidateFirst(r, remaining) ==
    IF TooShort(UserAnswerOf(r.answerId))
    THEN Thrown([r EXCEPT !.remaining = remaining], "ValidationError")
    ELSE IF ~Allowed(remaining)
    THEN Thrown([r EXCEPT !.remaining = remaining], "QuotaExceededError")
    ELSE [r EXCEPT !.remaining = remaining, !.pc = "generate", !.calledModel = TRUE]

\* generateFeedback from the answer of canRequestFeedback on: the rate-limit
\* throw, then the length check, then the call of generateInsightsForAnswer
AfterCanRequest(r, remaining) ==
    IF ~Allowed(remaining)
    THEN Thrown([r EXCEPT !.remaining = remaining], "QuotaExceededError")
    ELSE IF TooShort(UserAnswerOf(r.answerId))
    THEN Thrown([r EXCEPT !.remaining = remaining], "ValidationError")
    ELSE [r EXCEPT !.remaining = remaining, !.pc = "generate", !.calledModel = TRUE]

(***************************************************************************)
(* Init: no call in flight.  The collections are empty, or hold what       *)
(* alice's earlier generations of the day left in them: one aiFeedback     *)
(* document per earlier answer and the day's count.                        *)
(***************************************************************************)
HandlerUnused == apiRequest = IdleRequest /\ apiResponse = NoResponse
\* the pages of the other components are not open: nothing is mounted
IndexerUnused == batch = NotMounted
UpvotesUnused ==
    /\ answerDoc = NoUpvotes
    /\ answerViews = NotMounted
    /\ upvote = NotMounted
    /\ toggles = 0
AdminUnused ==
    /\ questionDocs = StoredQuestionDocs(TRUE)
    /\ adminPanel = NotMounted
ComponentUnused == component = NotMounted
PanelsUnused == IndexerUnused /\ UpvotesUnused /\ AdminUnused /\ ComponentUnused
ParserUnused == content = [i \in 1..4 |-> NoSection] /\ parsed = NotParsed

\* the other components at rest
SimilarUnused ==
    /\ now = 0
    /\ similarCasesCache = [q \in QuestionIds |-> NoEntry]
    /\ localStorage = [q \in QuestionIds |-> NoItem]
    /\ lookup = IdleLookup

OthersUnused == SimilarUnused /\ HandlerUnused /\ ParserUnused /\ PanelsUnused

EarlierFeedback(n) ==
    {[id |-> <<EarlierAnswerIds[i], 1>>, answerId |-> EarlierAnswerIds[i],
      userId |-> "alice", userAnswer |-> UserAnswerOf(EarlierAnswerIds[i]),
      content |-> "feedback-A"] : i \in 1..n}

EarlierLimits(n) ==
    [k \in Users \X Days |->
        IF n > 0 /\ k = LimitKey("alice", 1)
        THEN [exists |-> TRUE, requestCount |-> n]
        ELSE NoDoc]

Init ==
    /\ today = 1
    /\ \E n \in PriorGenerations :
          /\ dailyLimits = EarlierLimits(n)
          /\ aiFeedback = EarlierFeedback(n)
    /\ req = [p \in Procs |-> IdleReq]
    /\ faults = 0
    /\ OthersUnused

InFlight(p) == req[p].pc \notin {"idle", "done"}

(***************************************************************************)
(* generateFeedback, one action per await.                                 *)
(***************************************************************************)
\* generateFeedback(answerId, userId, userEmail, ...) is called: getDocs is issued
Call(p, answerId, userId) ==
    /\ ~InFlight(p)
    /\ req' = [req EXCEPT ![p] = [IdleReq EXCEPT !.pc = "getDocs",
                                                 !.answerId = answerId,
                                                 !.userId = userId]]
    /\ UNCHANGED <<faults, otherVars, today, dailyLimits, aiFeedback>>

\* getFeedbackForAnswer settles; an existing document is returned, otherwise
\* canRequestFeedback runs (admins are answered without a store read)
GetFeedbackForAnswer(p) ==
    /\ req[p].pc = "getDocs"
    /\ LET r == req[p]
           found == ExistingFeedback(r.answerId)
       IN  IF found # {}
           THEN \E doc \in found : req' = [req EXCEPT ![p] = Returned(r, doc.id)]
           ELSE IF IsUserAdmin(EmailOf(r.userId))
           THEN req' = [req EXCEPT ![p] = AfterCanRequest(r, ADMIN_REMAINING)]
           ELSE req' = [req EXCEPT ![p] = [r EXCEPT !.pc = "getDoc",
                                                    !.statsDate = today]]
    /\ UNCHANGED <<faults, otherVars, today, dailyLimits, aiFeedback>>
\* a read of the user's record of the first date, whatever the date is
GetUserDailyStatsUndated(p) ==
    /\ req[p].pc = "getDoc"
    /\ LET r == req[p]
           limitDoc == dailyLimits[LimitKey(r.userId, 1)]
       IN  req' = [req EXCEPT ![p] = AfterCanRequest(r, RemainingToday(limitDoc))]
    /\ UNCHANGED <<faults, otherVars, today, dailyLimits, aiFeedback>>

\* getUserDailyStats reads dailyLimits/${userId}_${today}
GetUserDailyStats(p) ==
    /\ req[p].pc = "getDoc"
    /\ LET r == req[p]
           limitDoc == dailyLimits[LimitKey(r.userId, r.statsDate)]
       IN  req' = [req EXCEPT ![p] = AfterCanRequest(r, RemainingToday(limitDoc))]
    /\ UNCHANGED <<faults, otherVars, today, dailyLimits, aiFeedback>>

\* generateInsightsForAnswer resolves with the model's text; the text is
\* parsed and, for a non-admin, incrementDailyCount issues its getDoc
GenerateInsightsOk(p) ==
    /\ req[p].pc = "generate"
    /\ \E text \in Contents :
         LET r == req[p]
         IN  IF ~IsUserAdmin(EmailOf(r.userId))
             THEN req' = [req EXCEPT ![p] = [r EXCEPT !.pc = "incGetDoc",
                                                      !.content = text,
                                                      !.incDate = today]]
             ELSE req' = [req EXCEPT ![p] = [r EXCEPT !.pc = "addDoc",
                                                      !.content = text]]
    /\ UNCHANGED <<faults, otherVars, today, dailyLimits, aiFeedback>>

\* a failure path that has already charged the daily count
GenerateInsightsFailCharged(p) ==
    /\ req[p].pc = "generate"
    /\ LET r == req[p]
           k == LimitKey(r.userId, today)
       IN  /\ dailyLimits' = [dailyLimits EXCEPT ![k] = IncrementedDoc(dailyLimits[k])]
           /\ req' = [req EXCEPT ![p] = Thrown([r EXCEPT !.writes = @ + 1,
                                                         !.charged = TRUE],
                                               "GenerationError")]
    /\ UNCHANGED <<faults, otherVars, today, aiFeedback>>

\* generateInsightsForAnswer throws (no API key, fetch error, non-2xx,
\* unusable response); generateFeedback logs and rethrows
GenerateInsightsFail(p) ==
    /\ req[p].pc = "generate"
    /\ req' = [req EXCEPT ![p] = Thrown(req[p], "GenerationError")]
    /\ UNCHANGED <<faults, otherVars, today, dailyLimits, aiFeedback>>

\* incrementDailyCount: getDoc settles
IncrementGetDoc(p) ==
    /\ req[p].pc = "incGetDoc"
    /\ LET r == req[p]
       IN  req' = [req EXCEPT ![p] =
                     [r EXCEPT !.pc = "incWrite",
                               !.limitDoc = dailyLimits[LimitKey(r.userId, r.incDate)]]]
    /\ UNCHANGED <<faults, otherVars, today, dailyLimits, aiFeedback>>

\* incrementDailyCount: updateDoc / setDoc settles
IncrementWrite(p) ==
    /\ req[p].pc = "incWrite"
    /\ LET r == req[p]
       IN  /\ dailyLimits' = [dailyLimits EXCEPT ![LimitKey(r.userId, r.incDate)] =
                                IncrementedDoc(r.limitDoc)]
           /\ req' = [req EXCEPT ![p] = [r EXCEPT !.pc = "addDoc",
                                                  !.writes = @ + 1,
                                                  !.charged = TRUE]]
    /\ UNCHANGED <<faults, otherVars, today, aiFeedback>>

\* a write that keeps one feedback document per user, replacing the older ones
AddDocPerUser(p) ==
    /\ req[p].pc = "addDoc"
    /\ LET r == req[p]
           id == NewFeedbackId(r.answerId)
       IN  /\ aiFeedback' = {d \in aiFeedback : d.userId # r.userId} \cup
                  {[id |-> id, answerId |-> r.answerId, userId |-> r.userId,
                    userAnswer |-> UserAnswerOf(r.answerId), content |-> r.content]}
           /\ req' = [req EXCEPT ![p] = Returned([r EXCEPT !.writes = @ + 1], id)]
    /\ UNCHANGED <<faults, otherVars, today, dailyLimits>>

\* addDoc(collection(db, 'aiFeedback'), ...) settles; newFeedback is returned
AddDoc(p) ==
    /\ req[p].pc = "addDoc"
    /\ LET r == req[p]
           id == NewFeedbackId(r.answerId)
       IN  /\ aiFeedback' = aiFeedback \cup
                  {[id |-> id, answerId |-> r.answerId, userId |-> r.userId,
                    userAnswer |-> UserAnswerOf(r.answerId), content |-> r.content]}
           /\ req' = [req EXCEPT ![p] = Returned([r EXCEPT !.writes = @ + 1], id)]
    /\ UNCHANGED <<faults, otherVars, today, dailyLimits>>

\* midnight UTC passes
Tick ==
    /\ today < MaxDay
    /\ today' = today + 1
    /\ UNCHANGED <<faults, otherVars, dailyLimits, aiFeedback, req>>

Start == \E p \in Procs, a \in AnswerIds : Call(p, a, OwnerOf(a))

\* a call that starts only when no other call is pending
StartAlone ==
    \E p \in Procs, a \in AnswerIds :
        /\ \A q \in Procs : ~InFlight(q)
        /\ Call(p, a, OwnerOf(a))

ExistingCheck == \E p \in Procs : GetFeedbackForAnswer(p)
QuotaCheck    == \E p \in Procs : GetUserDailyStats(p)
ModelOk       == \E p \in Procs : GenerateInsightsOk(p)
ModelFail     == \E p \in Procs : GenerateInsightsFail(p)
IncRead       == \E p \in Procs : IncrementGetDoc(p)
IncWrite      == \E p \in Procs : IncrementWrite(p)
Persist       == \E p \in Procs : AddDoc(p)

Steps ==
    \/ ExistingCheck
    \/ QuotaCheck
    \/ ModelOk
    \/ ModelFail
    \/ IncRead
    \/ IncWrite
    \/ Persist
    \/ Tick

\* calls may overlap
Next == Start \/ Steps

Spec == Init /\ [][Next]_vars

\* calls never overlap: each finishes before the next starts
NextSeq == StartAlone \/ Steps

SpecSeq == Init /\ [][NextSeq]_vars

(***************************************************************************)
(* The same pipeline over a store whose reads and writes can be rejected   *)
(* (FirestoreError: unavailable, permission-denied, ...).  Calls do not    *)
(* overlap here.                                                           *)
(***************************************************************************)
\* requestCount of a dailyLimits document written for root before the address
\* was added to ADMIN_EMAILS (0: no such document)
AdminLegacyCounts == {0, 5}

InitFault ==
    /\ today = 1
    /\ \E n \in PriorGenerations, m \in AdminLegacyCounts :
          /\ dailyLimits =
                [EarlierLimits(n) EXCEPT ![LimitKey("root", 1)] =
                    IF m > 0 THEN [exists |-> TRUE, requestCount |-> m] ELSE NoDoc]
          /\ aiFeedback = EarlierFeedback(n)
    /\ req = [p \in Procs |-> IdleReq]
    /\ faults = 0
    /\ OthersUnused

\* getFeedbackForAnswer: getDocs rejects; the catch logs and returns null, so
\* generateFeedback goes on as if no document existed
GetFeedbackForAnswerCatch(p) ==
    /\ faults < MaxFaults
    /\ faults' = faults + 1
    /\ req[p].pc = "getDocs"
    /\ LET r == req[p]
       IN  IF IsUserAdmin(EmailOf(r.userId))
           THEN req' = [req EXCEPT ![p] = AfterCanRequest(r, ADMIN_REMAINING)]
           ELSE req' = [req EXCEPT ![p] = [r EXCEPT !.pc = "getDoc",
                                                    !.statsDate = today]]
    /\ UNCHANGED <<otherVars, today, dailyLimits, aiFeedback>>

\* a catch that answers a failed read with no quota left
GetUserDailyStatsCatchClosed(p) ==
    /\ faults < MaxFaults
    /\ faults' = faults + 1
    /\ req[p].pc = "getDoc"
    /\ req' = [req EXCEPT ![p] =
                 AfterCanRequest([req[p] EXCEPT !.readFailed = TRUE], 0)]
    /\ UNCHANGED <<otherVars, today, dailyLimits, aiFeedback>>

\* getUserDailyStats: getDoc rejects; the catch returns remainingToday: DAILY_LIMIT
GetUserDailyStatsCatch(p) ==
    /\ faults < MaxFaults
    /\ faults' = faults + 1
    /\ req[p].pc = "getDoc"
    /\ req' = [req EXCEPT ![p] =
                 AfterCanRequest([req[p] EXCEPT !.readFailed = TRUE], DAILY_LIMIT)]
    /\ UNCHANGED <<otherVars, today, dailyLimits, aiFeedback>>

\* incrementDailyCount: getDoc rejects; generateFeedback logs and rethrows
IncrementGetDocReject(p) ==
    /\ faults < MaxFaults
    /\ faults' = faults + 1
    /\ req[p].pc = "incGetDoc"
    /\ req' = [req EXCEPT ![p] = Thrown(req[p], "FirestoreError")]
    /\ UNCHANGED <<otherVars, today, dailyLimits, aiFeedback>>

\* incrementDailyCount: updateDoc / setDoc rejects; generateFeedback rethrows
IncrementWriteReject(p) ==
    /\ faults < MaxFaults
    /\ faults' = faults + 1
    /\ req[p].pc = "incWrite"
    /\ req' = [req EXCEPT ![p] = Thrown(req[p], "FirestoreError")]
    /\ UNCHANGED <<otherVars, today, dailyLimits, aiFeedback>>

\* addDoc rejects; generateFeedback logs and rethrows
AddDocReject(p) ==
    /\ faults < MaxFaults
    /\ faults' = faults + 1
    /\ req[p].pc = "addDoc"
    /\ req' = [req EXCEPT ![p] = Thrown(req[p], "FirestoreError")]
    /\ UNCHANGED <<otherVars, today, dailyLimits, aiFeedback>>

ExistingCheckFail == \E p \in Procs : GetFeedbackForAnswerCatch(p)
QuotaCheckFail    == \E p \in Procs : GetUserDailyStatsCatch(p)
IncReadFail       == \E p \in Procs : IncrementGetDocReject(p)
IncWriteFail      == \E p \in Procs : IncrementWriteReject(p)
PersistFail       == \E p \in Procs : AddDocReject(p)

StoreFaults ==
    \/ ExistingCheckFail
    \/ QuotaCheckFail
    \/ IncReadFail
    \/ IncWriteFail
    \/ PersistFail

NextFault == StartAlone \/ Steps \/ StoreFaults

SpecFault == InitFault /\ [][NextFault]_vars

(***************************************************************************)
(* The similar-cases panel: fetchSimilarCases of SimilarCases.tsx over the *)
(* module-level Map and localStorage, findSimilarCases of vectordb.ts and  *)
(* what the route /api/similar-cases answers.  One fetchSimilarCases call  *)
(* runs at a time; it suspends at the await of findSimilarCases.           *)
(***************************************************************************)
\* a TTL test that still accepts an entry of exactly CACHE_DURATION
FreshInclusive(t, timestamp) == ~((t - timestamp) > CACHE_DURATION)

\* (now - cached.timestamp) < CACHE_DURATION
Fresh(t, timestamp) == (t - timestamp) < CACHE_DURATION

\* Array.prototype.slice(0, n)
Take(s, n) == SubSeq(s, 1, IF Len(s) < n THEN Len(s) ELSE n)

\* the first topK matches, the case asked about among them or not
SimilarCasesUnfiltered(matches, questionId, topK) == Take(matches, topK)

\* the route: queryResponse.matches.filter(match => match.id !== questionId)
\* .slice(0, topK).map(...); a match is written as its id
SimilarCasesOf(matches, questionId, topK) ==
    Take(SelectSeq(matches, LAMBDA m : m # questionId), topK)

\* what index.query({topK: topK + 1}) can answer
IndexAnswers(topK) == Rankings(Corpus, topK + 1)

\* the value similarCasesCache.set stores
CacheEntry(similar, t) == [present |-> TRUE, data |-> similar, timestamp |-> t]

\* the string localStorage.setItem stores: JSON.stringify({data, timestamp})
StoredItem(similar, t) ==
    [present |-> TRUE, json |-> [data |-> similar, timestamp |-> t]]

\* JSON.parse of a stored string
JSONParse(item) == item.json

\* fetchSimilarCases up to the await: a fresh entry of the Map is shown,
\* otherwise findSimilarCases is called (POST /api/similar-cases)
FetchSimilarCases(q) ==
    /\ lookup.pc # "fetch"
    /\ LET cached == similarCasesCache[q]
       IN  IF cached.present /\ Fresh(now, cached.timestamp)
           THEN lookup' = [pc |-> "done", questionId |-> q, now |-> now,
                           similarCases |-> cached.data, loading |-> FALSE,
                           error |-> NoError, remoteCalls |-> 0, remoteOk |-> FALSE]
           ELSE lookup' = [pc |-> "fetch", questionId |-> q, now |-> now,
                           similarCases |-> lookup.similarCases, loading |-> TRUE,
                           error |-> NoError, remoteCalls |-> 1, remoteOk |-> FALSE]
    /\ UNCHANGED <<now, similarCasesCache, localStorage>>
    /\ UNCHANGED <<feedbackVars, handlerVars, parserVars, panelVars>>

\* fetchSimilarCases after the await: both tiers are written with the time
\* read before the call (setItem may throw, which is only logged), the list
\* is shown
AfterFindSimilarCases(similar, ok, stored) ==
    /\ similarCasesCache' = [similarCasesCache EXCEPT ![lookup.questionId] =
                                CacheEntry(similar, lookup.now)]
    /\ localStorage' = IF stored
                       THEN [localStorage EXCEPT ![lookup.questionId] =
                                StoredItem(similar, lookup.now)]
                       ELSE localStorage
    /\ lookup' = [lookup EXCEPT !.pc = "done", !.similarCases = similar,
                                !.loading = FALSE, !.remoteOk = ok]
    /\ UNCHANGED now
    /\ UNCHANGED <<feedbackVars, handlerVars, parserVars, panelVars>>

\* the route answers 200 with the list it computed
FindSimilarCasesOk ==
    /\ lookup.pc = "fetch"
    /\ \E matches \in IndexAnswers(PANEL_TOP_K), stored \in BOOLEAN :
          AfterFindSimilarCases(
              SimilarCasesOf(matches, lookup.questionId, PANEL_TOP_K), TRUE, stored)

\* fetch rejects or the route answers 400/405/500: findSimilarCases catches
\* the error and returns []
FindSimilarCasesCatch ==
    /\ lookup.pc = "fetch"
    /\ \E stored \in BOOLEAN : AfterFindSimilarCases(<<>>, FALSE, stored)

\* the page is loaded anew: the Map is empty again, localStorage stays
Reload ==
    /\ similarCasesCache' = [q \in QuestionIds |-> NoEntry]
    /\ lookup' = IdleLookup
    /\ UNCHANGED <<now, localStorage>>
    /\ UNCHANGED <<feedbackVars, handlerVars, parserVars, panelVars>>

\* time passes
AdvanceClock ==
    /\ now < MaxClockSteps * ClockStep
    /\ now' = now + ClockStep
    /\ UNCHANGED <<similarCasesCache, localStorage, lookup>>
    /\ UNCHANGED <<feedbackVars, handlerVars, parserVars, panelVars>>

Mount == \E q \in QuestionIds : FetchSimilarCases(q)

FeedbackUnused ==
    /\ today = 1
    /\ dailyLimits = EarlierLimits(0)
    /\ aiFeedback = EarlierFeedback(0)
    /\ req = [p \in Procs |-> IdleReq]
    /\ faults = 0

InitSimilar ==
    SimilarUnused /\ FeedbackUnused /\ HandlerUnused /\ ParserUnused /\ PanelsUnused

NextSimilar ==
    \/ Mount
    \/ FindSimilarCasesOk
    \/ FindSimilarCasesCatch
    \/ Reload
    \/ AdvanceClock

SpecSimilar == InitSimilar /\ [][NextSimilar]_vars

(***************************************************************************)
(* The route /api/similar-cases (handler), one action per await.           *)
(***************************************************************************)
Methods == {"POST", "GET"}

\* req.body.questionId: a case of the index, a case not indexed, none
BodyQuestionIds == Corpus \cup {"q9", ""}

\* req.body.topK, the default standing for a body without topK
BodyTopKs == (1..MaxTopK) \cup {DEFAULT_TOP_K}

Respond(status, similarCases) ==
    [status |-> status, similarCases |-> similarCases]

\* a request arrives: 405 for a method other than POST, 400 for a body
\* without questionId, title or description, otherwise the embedding is asked for
Handler(method, questionId, complete, topK) ==
    /\ apiRequest.pc \notin {"embedding", "query"}
    /\ LET rq == [pc |-> "responded", method |-> method, questionId |-> questionId,
                  complete |-> complete, topK |-> topK, matches |-> <<>>]
       IN  IF method # "POST"
           THEN /\ apiRequest' = rq
                /\ apiResponse' = Respond(405, <<>>)
           ELSE IF questionId = "" \/ ~complete
           THEN /\ apiRequest' = rq
                /\ apiResponse' = Respond(400, <<>>)
           ELSE /\ apiRequest' = [rq EXCEPT !.pc = "embedding"]
                /\ apiResponse' = NoResponse
    /\ UNCHANGED <<feedbackVars, similarVars, parserVars, panelVars>>

\* openai.embeddings.create resolves: index.query is issued with topK + 1
EmbeddingOk ==
    /\ apiRequest.pc = "embedding"
    /\ apiRequest' = [apiRequest EXCEPT !.pc = "query"]
    /\ UNCHANGED apiResponse
    /\ UNCHANGED <<feedbackVars, similarVars, parserVars, panelVars>>

\* index.query resolves: the matches are filtered, cut and answered with 200
QueryOk ==
    /\ apiRequest.pc = "query"
    /\ \E matches \in IndexAnswers(apiRequest.topK) :
          /\ apiRequest' = [apiRequest EXCEPT !.pc = "responded", !.matches = matches]
          /\ apiResponse' = Respond(200, SimilarCasesOf(matches, apiRequest.questionId,
                                                        apiRequest.topK))
    /\ UNCHANGED <<feedbackVars, similarVars, parserVars, panelVars>>

\* openai.embeddings.create or index.query rejects: the catch answers 500
HandlerCatch ==
    /\ apiRequest.pc \in {"embedding", "query"}
    /\ apiRequest' = [apiRequest EXCEPT !.pc = "responded"]
    /\ apiResponse' = Respond(500, <<>>)
    /\ UNCHANGED <<feedbackVars, similarVars, parserVars, panelVars>>

Request ==
    \E method \in Methods, questionId \in BodyQuestionIds,
       complete \in BOOLEAN, topK \in BodyTopKs :
        Handler(method, questionId, complete, topK)

InitHandler ==
    HandlerUnused /\ FeedbackUnused /\ SimilarUnused /\ ParserUnused /\ PanelsUnused

NextHandler ==
    \/ Request
    \/ EmbeddingOk
    \/ QueryOk
    \/ HandlerCatch

SpecHandler == InitHandler /\ [][NextHandler]_vars

(***************************************************************************)
(* parseFeedbackContent and extractBulletPoints.  A text is a sequence of  *)
(* tokens: single characters (digits, ".", " ", "\n", "-", the bullet      *)
(* glyph, "*") and whole words.                                            *)
(***************************************************************************)
NL == "\n"

\* the character U+2022
BulletGlyph == "(u2022)"

\* the section labels in the order of the prompt
Labels ==
    <<"STRENGTHS", "AREAS FOR IMPROVEMENT", "MISSING CONSIDERATIONS",
      "FRAMEWORK SUGGESTIONS">>

\* the digit the prompt numbers each section with
Numbers == <<"1", "2", "3", "4">>

\* a label as a model writes it in a bold title
TitleCase(label) ==
    CASE label = "STRENGTHS"              -> "Strengths"
      [] label = "AREAS FOR IMPROVEMENT"  -> "Areas for Improvement"
      [] label = "MISSING CONSIDERATIONS" -> "Missing Considerations"
      [] label = "FRAMEWORK SUGGESTIONS"  -> "Framework Suggestions"
      [] OTHER                            -> label

\* the i flag of the regular expressions: words compared without case
UpperCase(t) ==
    CASE t = "Strengths"              -> "STRENGTHS"
      [] t = "Areas for Improvement"  -> "AREAS FOR IMPROVEMENT"
      [] t = "Missing Considerations" -> "MISSING CONSIDERATIONS"
      [] t = "Framework Suggestions"  -> "FRAMEWORK SUGGESTIONS"
      [] OTHER                        -> t

\* \d
IsDigit(t) == t \in {"0", "1", "2", "3", "4", "5", "6", "7", "8", "9"}

\* \s
IsSpace(t) == t \in {" ", NL}

\* how a section of a generated text is written
HeadingStyles == {"plain", "numbered", "titled"}

SectionBodies == {"prose", "dashes", "ordinal"}

\* the heading line of section i in a style
HeadingLine(i, style) ==
    CASE style = "plain"    -> <<Labels[i]>>
      [] style = "numbered" -> <<Numbers[i], ".", " ", Labels[i]>>
      [] style = "titled"   -> <<"*", "*", TitleCase(Labels[i]), "*", "*">>
      [] OTHER              -> <<>>

\* the lines under a heading
BodyLines(body) ==
    CASE body = "prose"   -> <<<<"text">>>>
      [] body = "dashes"  -> <<<<"-", " ", "A">>, <<"-", " ", "B">>>>
      [] body = "ordinal" -> <<<<"1", ".", " ", "C">>>>
      [] OTHER            -> <<>>

RECURSIVE JoinLines(_)
JoinLines(lines) ==
    IF lines = <<>> THEN <<>>
    ELSE IF Len(lines) = 1 THEN lines[1]
    ELSE lines[1] \o <<NL>> \o JoinLines(Tail(lines))

SectionLines(i, section) ==
    IF section.style = "absent"
    THEN <<>>
    ELSE <<HeadingLine(i, section.style)>> \o BodyLines(section.body)

\* the text the model returned, sections in the order of the prompt
RawText(sections) ==
    JoinLines(SectionLines(1, sections[1]) \o SectionLines(2, sections[2]) \o
              SectionLines(3, sections[3]) \o SectionLines(4, sections[4]))

RECURSIVE SkipSpaces(_, _)
\* \s* from position i on
SkipSpaces(text, i) ==
    IF i <= Len(text) /\ IsSpace(text[i]) THEN SkipSpaces(text, i + 1) ELSE i

\* the label at position i
LabelAt(text, i, label) == i <= Len(text) /\ UpperCase(text[i]) = label

\* N\.\s*LABEL at position i: the position after the match, 0 for no match
NumberedLabelEnd(text, i, number, label) ==
    IF i + 1 <= Len(text) /\ text[i] = number /\ text[i + 1] = "."
       /\ LabelAt(text, SkipSpaces(text, i + 2), label)
    THEN SkipSpaces(text, i + 2) + 1
    ELSE 0

\* the positions at which (?:N\.\s*LABEL|LABEL) matches
HeadingStarts(text, number, label) ==
    {i \in 1..Len(text) :
        NumberedLabelEnd(text, i, number, label) # 0 \/ LabelAt(text, i, label)}

Min(S) == CHOOSE x \in S : \A y \in S : x <= y

\* (?=(?:\d\.|$)) after [\s\S]*?: the first position from i on at which a
\* digit and a dot follow, or the end of the text
RECURSIVE LazyEnd(_, _)
LazyEnd(text, i) ==
    IF i > Len(text) THEN i
    ELSE IF IsDigit(text[i]) /\ i + 1 <= Len(text) /\ text[i + 1] = "." THEN i
    ELSE LazyEnd(text, i + 1)

\* content.match(/(?:N\.\s*LABEL|LABEL)[\s\S]*?(?=(?:\d\.|$))/i): match[0];
\* toEnd for the last expression, /(?:N\.\s*LABEL|LABEL)[\s\S]*?$/i
Match(text, number, label, toEnd) ==
    LET starts == HeadingStarts(text, number, label)
    IN  IF starts = {}
        THEN [found |-> FALSE, text |-> <<>>]
        ELSE LET start == Min(starts)
                 numbered == NumberedLabelEnd(text, start, number, label)
                 after == IF numbered # 0 THEN numbered ELSE start + 1
                 stop == IF toEnd THEN Len(text) + 1 ELSE LazyEnd(text, after)
             IN  [found |-> TRUE, text |-> SubSeq(text, start, stop - 1)]

RECURSIVE Split(_)
\* text.split('\n')
Split(text) ==
    IF \A i \in 1..Len(text) : text[i] # NL
    THEN <<text>>
    ELSE LET k == Min({i \in 1..Len(text) : text[i] = NL})
         IN  <<SubSeq(text, 1, k - 1)>> \o Split(SubSeq(text, k + 1, Len(text)))

RECURSIVE TrimStart(_)
TrimStart(line) ==
    IF line # <<>> /\ IsSpace(line[1]) THEN TrimStart(Tail(line)) ELSE line

RECURSIVE TrimEnd(_)
TrimEnd(line) ==
    IF line # <<>> /\ IsSpace(line[Len(line)])
    THEN TrimEnd(SubSeq(line, 1, Len(line) - 1))
    ELSE line

\* line.trim()
Trim(line) == TrimEnd(TrimStart(line))

RECURSIVE LeadingDigits(_)
LeadingDigits(line) ==
    IF line # <<>> /\ IsDigit(line[1]) THEN 1 + LeadingDigits(Tail(line)) ELSE 0

\* line.match(/^\d+\./)
StartsWithOrdinal(line) ==
    /\ LeadingDigits(line) > 0
    /\ LeadingDigits(line) < Len(line)
    /\ line[LeadingDigits(line) + 1] = "."

\* the filter of extractBulletPoints
IsBulletLine(line) ==
    \/ (line # <<>> /\ line[1] \in {"-", BulletGlyph})
    \/ StartsWithOrdinal(line)

\* line.replace(/^[-•]\s*/, '')
StripMarker(line) ==
    IF line # <<>> /\ line[1] \in {"-", BulletGlyph}
    THEN TrimStart(Tail(line))
    ELSE line

\* line.replace(/^\d+\.\s*/, '')
StripOrdinal(line) ==
    IF StartsWithOrdinal(line)
    THEN TrimStart(SubSeq(line, LeadingDigits(line) + 2, Len(line)))
    ELSE line

ExtractBulletPoints(text) ==
    LET lines == Split(text)
        trimmed == [i \in 1..Len(lines) |-> Trim(lines[i])]
        bullets == SelectSeq(trimmed, IsBulletLine)
    IN  [i \in 1..Len(bullets) |-> StripOrdinal(StripMarker(bullets[i]))]

\* one field of the result of parseFeedbackContent
Field(text, i) ==
    LET m == Match(text, Numbers[i], Labels[i], i = 4)
    IN  IF m.found
        THEN [present |-> TRUE, items |-> ExtractBulletPoints(m.text)]
        ELSE AbsentField

ParseFeedbackContent(text) ==
    [called |-> TRUE, strengths |-> Field(text, 1), improvements |-> Field(text, 2),
     missing |-> Field(text, 3), frameworks |-> Field(text, 4)]

\* the texts parseFeedbackContent is applied to
SectionChoices ==
    {NoSection} \cup [style : HeadingStyles, body : SectionBodies]

InitParser ==
    /\ content \in [1..4 -> SectionChoices]
    /\ parsed = NotParsed
    /\ FeedbackUnused
    /\ SimilarUnused
    /\ HandlerUnused
    /\ PanelsUnused

\* parsedFeedback = this.parseFeedbackContent(feedbackContent)
Parse ==
    /\ ~parsed.called
    /\ parsed' = ParseFeedbackContent(RawText(content))
    /\ UNCHANGED content
    /\ UNCHANGED <<feedbackVars, similarVars, handlerVars, panelVars>>

NextParser == Parse

SpecParser == InitParser /\ [][NextParser]_vars
(***************************************************************************)
(* The admin's bulk indexer: indexAllCases of AdminVectorDB, one action    *)
(* per await.  The repository holds two versions of the component, the     *)
(* build contains one of them:                                             *)
(*   "A"  components/AdminVectorDB.tsx: the loop has no try of its own     *)
(*   "B"  the client-side version: each indexCase call has its own try     *)
(* Time is counted in milliseconds from the start of the run.              *)
(***************************************************************************)
Versions == {"A", "B"}

\* setTimeout(resolve, 300)
INDEX_DELAY == 300

\* the questions collection as getDocs lists it
CorpusList == <<"q1", "q2", "q3">>

\* how long an indexCase call (embedding and upsert) may take
IndexCaseDurations == {50, 400}

\* the attempts of a run that indexed / failed to index their case
Indexed(attempts) == {k \in 1..Len(attempts) : attempts[k].ok}
NotIndexed(attempts) == {k \in 1..Len(attempts) : ~attempts[k].ok}

\* the text of setMessage
Message(kind, successCount, failCount, total) ==
    [kind |-> kind, successCount |-> successCount, failCount |-> failCount,
     total |-> total]

\* the end of the loop: setStatus('success'), setMessage(...), then the
\* finally block
Complete(b) ==
    [b EXCEPT !.pc = "done", !.indexing = FALSE, !.status = "success",
              !.message = IF b.version = "A"
                          THEN Message("indexed", 0, 0, Len(b.questions))
                          ELSE Message("complete", b.successCount, b.failCount,
                                       Len(b.questions))]

\* the outer catch: setStatus('error'), setMessage(...), then the finally block
Abort(b) ==
    [b EXCEPT !.pc = "done", !.indexing = FALSE, !.status = "error",
              !.message = Message("failed", 0, 0, 0)]

\* the loop head with i already advanced: the next indexCase call is issued,
\* or the loop is left
LoopHead(b) ==
    IF b.i > Len(b.questions)
    THEN Complete(b)
    ELSE [b EXCEPT !.pc = "indexCase", !.startedAt = b.time]

\* what the settled indexCase call adds to the history of the run
Attempt(b, ok, t) ==
    [id |-> b.questions[b.i], ok |-> ok, startedAt |-> b.startedAt, settledAt |-> t]

\* the Start Indexing button (disabled while indexing) is clicked; version B
\* asks confirm(...) first and returns when it is declined
IndexAllCases ==
    /\ ~batch.indexing
    /\ \E confirmed \in BOOLEAN :
          IF batch.version = "B" /\ ~confirmed
          THEN batch' = batch
          ELSE batch' = [IdleBatch(batch.version) EXCEPT
                            !.pc = "getDocs", !.indexing = TRUE,
                            !.message = IF batch.version = "B"
                                        THEN Message("starting", 0, 0, 0)
                                        ELSE NoMessage]
    /\ UNCHANGED indexerRest

\* getDocs(questionsRef) resolves; setProgress, the loop is entered
GetDocsOk ==
    /\ batch.pc = "getDocs"
    /\ \E n \in 0..Len(CorpusList) :
          batch' = LoopHead([batch EXCEPT
                                !.questions = SubSeq(CorpusList, 1, n),
                                !.progress = [current |-> 0, total |-> n],
                                !.i = 1])
    /\ UNCHANGED indexerRest

\* getDocs rejects: the outer catch
GetDocsReject ==
    /\ batch.pc = "getDocs"
    /\ batch' = Abort(batch)
    /\ UNCHANGED indexerRest

\* indexCase resolves: the count (version B) and the progress are set, the
\* timer is started
IndexCaseOk ==
    /\ batch.pc = "indexCase"
    /\ \E d \in IndexCaseDurations :
          LET t == batch.time + d
          IN  batch' = [batch EXCEPT
                  !.pc = "delay",
                  !.time = t,
                  !.attempts = Append(@, Attempt(batch, TRUE, t)),
                  !.successCount = IF batch.version = "B" THEN @ + 1 ELSE @,
                  !.progress = [current |-> batch.i,
                                total |-> Len(batch.questions)]]
    /\ UNCHANGED indexerRest

\* indexCase rejects (it rethrows what the route or fetch reported).
\* Version A: the outer catch ends the run.  Version B: the inner catch
\* counts the failure and the loop goes on with the next case at once
IndexCaseReject ==
    /\ batch.pc = "indexCase"
    /\ \E d \in IndexCaseDurations :
          LET t == batch.time + d
              b == [batch EXCEPT !.time = t,
                                 !.attempts = Append(@, Attempt(batch, FALSE, t))]
          IN  IF batch.version = "A"
              THEN batch' = Abort(b)
              ELSE batch' = LoopHead([b EXCEPT !.failCount = @ + 1, !.i = @ + 1])
    /\ UNCHANGED indexerRest

\* the timer fires: i++ and the loop head
DelayElapsed ==
    /\ batch.pc = "delay"
    /\ batch' = LoopHead([batch EXCEPT !.time = @ + INDEX_DELAY, !.i = @ + 1])
    /\ UNCHANGED indexerRest

InitIndexer ==
    /\ \E v \in Versions : batch = IdleBatch(v)
    /\ FeedbackUnused
    /\ SimilarUnused
    /\ HandlerUnused
    /\ ParserUnused
    /\ UpvotesUnused
    /\ AdminUnused
    /\ ComponentUnused

NextIndexer ==
    \/ IndexAllCases
    \/ GetDocsOk
    \/ GetDocsReject
    \/ IndexCaseOk
    \/ IndexCaseReject
    \/ DelayElapsed

SpecIndexer == InitIndexer /\ [][NextIndexer]_vars
(***************************************************************************)
(* The upvote buttons.  Two handlers write the same answer document:       *)
(* toggleUpvote(answerId, currentUpvotes, upvotedBy), called with the      *)
(* values of the rendered answer and followed by a re-fetch, and           *)
(* handleUpvote(answerId, isCurrentlyUpvoted), which takes the count from  *)
(* the component's list of answers and patches that list afterwards.       *)
(* One answer document is modelled; user.uid ranges over Users.            *)
(***************************************************************************)
UpvoteHandlers == {"toggleUpvote", "handleUpvote"}

\* arrayUnion(uid) / arrayRemove(uid) applied by the store to the stored array
ArrayUnion(array, uid) == array \cup {uid}
ArrayRemove(array, uid) == array \ {uid}

\* the button is clicked: the handler runs up to its await.  Whether the user
\* has upvoted and the current count are taken from the user's copy of the
\* answer; updateDoc is issued with the new count as a number
UpvoteClick(u, handler) ==
    /\ toggles < MaxToggles
    /\ upvote[u].pc = "idle"
    /\ LET view == answerViews[u]
           hasUpvoted == u \in view.upvotedBy
       IN  upvote' = [upvote EXCEPT ![u] =
                [pc |-> "updateDoc", handler |-> handler, add |-> ~hasUpvoted,
                 upvotes |-> IF hasUpvoted THEN view.upvotes - 1
                                           ELSE view.upvotes + 1]]
    /\ toggles' = toggles + 1
    /\ UNCHANGED <<answerDoc, answerViews>>
    /\ UNCHANGED upvoteRest

\* updateDoc settles: the store sets upvotes to the number sent and applies
\* the array operation to the stored upvotedBy.  handleUpvote then patches
\* the user's copy; toggleUpvote calls fetchQuestionAnswers
UpdateDocSettles(u) ==
    /\ upvote[u].pc = "updateDoc"
    /\ LET c == upvote[u]
       IN  /\ answerDoc' =
                [upvotes |-> c.upvotes,
                 upvotedBy |-> IF c.add THEN ArrayUnion(answerDoc.upvotedBy, u)
                                        ELSE ArrayRemove(answerDoc.upvotedBy, u)]
           /\ IF c.handler = "handleUpvote"
              THEN /\ answerViews' = [answerViews EXCEPT ![u] =
                         [upvotes |-> c.upvotes,
                          upvotedBy |-> IF c.add THEN @.upvotedBy \cup {u}
                                                 ELSE @.upvotedBy \ {u}]]
                   /\ upvote' = [upvote EXCEPT ![u] = IdleUpvote]
              ELSE /\ answerViews' = answerViews
                   /\ upvote' = [upvote EXCEPT ![u] = [c EXCEPT !.pc = "fetch"]]
    /\ UNCHANGED toggles
    /\ UNCHANGED upvoteRest

\* updateDoc rejects: both handlers log the error and return
UpdateDocRejects(u) ==
    /\ upvote[u].pc = "updateDoc"
    /\ upvote' = [upvote EXCEPT ![u] = IdleUpvote]
    /\ UNCHANGED <<answerDoc, answerViews, toggles>>
    /\ UNCHANGED upvoteRest

\* fetchQuestionAnswers settles (after toggleUpvote), or the page loads the
\* answers anew: the user's copy is what the store holds now
FetchAnswers(u) ==
    /\ upvote[u].pc \in {"idle", "fetch"}
    /\ answerViews' = [answerViews EXCEPT ![u] = answerDoc]
    /\ upvote' = [upvote EXCEPT ![u] = IdleUpvote]
    /\ UNCHANGED <<answerDoc, toggles>>
    /\ UNCHANGED upvoteRest

InitUpvotes ==
    /\ answerDoc = NoUpvotes
    /\ answerViews = [u \in Users |-> NoUpvotes]
    /\ upvote = [u \in Users |-> IdleUpvote]
    /\ toggles = 0
    /\ IndexerUnused
    /\ FeedbackUnused
    /\ SimilarUnused
    /\ HandlerUnused
    /\ ParserUnused
    /\ AdminUnused
    /\ ComponentUnused

UpvoteClicks == \E u \in Users, h \in UpvoteHandlers : UpvoteClick(u, h)
UpvoteWrites == \E u \in Users : UpdateDocSettles(u)
UpvoteWriteFails == \E u \in Users : UpdateDocRejects(u)
UpvoteFetches == \E u \in Users : FetchAnswers(u)

NextUpvotes == UpvoteClicks \/ UpvoteWrites \/ UpvoteWriteFails \/ UpvoteFetches

SpecUpvotes == InitUpvotes /\ [][NextUpvotes]_vars
(***************************************************************************)
(* AdminPanel: handleSubmit and toggleQuestionActive, one action per       *)
(* await.  Both find the questions to deactivate in the component's        *)
(* questions state, the list the last fetchAllQuestions (or the last       *)
(* toggle of this panel) left there.  One handler run per panel at a time  *)
(* is modelled.                                                            *)
(***************************************************************************)
\* questions.filter(q => q.isActive)
ActiveQuestions(questions) == {q \in AllQuestions : questions[q] = "active"}

\* the id addDoc gives the new document
NewQuestionId == CHOOSE q \in NewQuestions : questionDocs[q] = "none"

\* the for loop over activeQuestions: the next updateDoc, or what follows it
LoopOrNext(run) ==
    IF run.activeQuestions # {}
    THEN [run EXCEPT !.pc = "deactivate"]
    ELSE [run EXCEPT !.pc = IF run.kind = "handleSubmit" THEN "addDoc"
                                                          ELSE "updateDoc"]

\* the form is submitted with title and description filled in
HandleSubmit(a, isActive) ==
    /\ adminPanel[a].run.pc = "idle"
    /\ \E q \in NewQuestions : questionDocs[q] = "none"
    /\ adminPanel' = [adminPanel EXCEPT ![a].run =
          LoopOrNext([IdleHandler EXCEPT
              !.kind = "handleSubmit",
              !.isActive = isActive,
              !.activeQuestions = IF isActive
                                  THEN ActiveQuestions(adminPanel[a].questions)
                                  ELSE {}])]
    /\ UNCHANGED questionDocs
    /\ UNCHANGED adminRest

\* the Activate / Deactivate button of a listed question is clicked
ToggleQuestionActive(a, questionId) ==
    /\ adminPanel[a].run.pc = "idle"
    /\ adminPanel[a].questions[questionId] # "none"
    /\ LET questions == adminPanel[a].questions
           currentActiveState == questions[questionId] = "active"
       IN  adminPanel' = [adminPanel EXCEPT ![a].run =
              LoopOrNext([IdleHandler EXCEPT
                  !.kind = "toggleQuestionActive",
                  !.questionId = questionId,
                  !.isActive = ~currentActiveState,
                  !.questions = questions,
                  !.activeQuestions = IF ~currentActiveState
                                      THEN ActiveQuestions(questions) \ {questionId}
                                      ELSE {}])]
    /\ UNCHANGED questionDocs
    /\ UNCHANGED adminRest

\* updateDoc(doc(db, 'questions', question.id), { isActive: false }) settles
DeactivateSettles(a) ==
    /\ adminPanel[a].run.pc = "deactivate"
    /\ \E q \in adminPanel[a].run.activeQuestions :
          /\ questionDocs' = [questionDocs EXCEPT ![q] = "inactive"]
          /\ adminPanel' = [adminPanel EXCEPT ![a].run =
                LoopOrNext([@ EXCEPT !.activeQuestions = @ \ {q}])]
    /\ UNCHANGED adminRest

\* addDoc(collection(db, 'questions'), {...newQuestion, ...}) settles
AddQuestionSettles(a) ==
    /\ adminPanel[a].run.pc = "addDoc"
    /\ \E q \in NewQuestions : questionDocs[q] = "none"
    /\ questionDocs' = [questionDocs EXCEPT ![NewQuestionId] =
                           IF adminPanel[a].run.isActive THEN "active" ELSE "inactive"]
    /\ adminPanel' = [adminPanel EXCEPT ![a].run.pc = "indexCase"]
    /\ UNCHANGED adminRest

\* the auto-index call settles, as a success or as a failure (only the
\* message differs); fetchAllQuestions() is called and not awaited
AutoIndexSettles(a) ==
    /\ adminPanel[a].run.pc = "indexCase"
    /\ adminPanel' = [adminPanel EXCEPT ![a].run = IdleHandler,
                                        ![a].fetching = TRUE]
    /\ UNCHANGED questionDocs
    /\ UNCHANGED adminRest

\* updateDoc(doc(db, 'questions', questionId), { isActive: !currentActiveState })
\* settles; setQuestions(questions.map(...)) with the questions of the click
ToggleSettles(a) ==
    /\ adminPanel[a].run.pc = "updateDoc"
    /\ LET run == adminPanel[a].run
           state == IF run.isActive THEN "active" ELSE "inactive"
       IN  /\ questionDocs' = [questionDocs EXCEPT ![run.questionId] = state]
           /\ adminPanel' = [adminPanel EXCEPT
                 ![a].run = IdleHandler,
                 ![a].questions =
                    [q \in AllQuestions |->
                        IF run.questions[q] = "none" THEN "none"
                        ELSE IF q = run.questionId THEN state
                        ELSE IF run.isActive THEN "inactive"
                        ELSE run.questions[q]]]
    /\ UNCHANGED adminRest

\* a store write of the run rejects: the catch shows the error message, the
\* writes already made stay
AdminWriteRejects(a) ==
    /\ adminPanel[a].run.pc \in {"deactivate", "addDoc", "updateDoc"}
    /\ adminPanel' = [adminPanel EXCEPT ![a].run = IdleHandler]
    /\ UNCHANGED questionDocs
    /\ UNCHANGED adminRest

\* the panel is mounted anew: fetchAllQuestions is called
MountAdminPanel(a) ==
    /\ adminPanel[a].run.pc = "idle"
    /\ ~adminPanel[a].fetching
    /\ adminPanel' = [adminPanel EXCEPT ![a].fetching = TRUE]
    /\ UNCHANGED questionDocs
    /\ UNCHANGED adminRest

\* getDocs of fetchAllQuestions settles: setQuestions(questionsData)
FetchAllQuestions(a) ==
    /\ adminPanel[a].fetching
    /\ adminPanel' = [adminPanel EXCEPT ![a].questions = questionDocs,
                                        ![a].fetching = FALSE]
    /\ UNCHANGED questionDocs
    /\ UNCHANGED adminRest

InitAdmin ==
    /\ \E oneActive \in BOOLEAN :
          /\ questionDocs = StoredQuestionDocs(oneActive)
          /\ adminPanel = [a \in AdminPanels |->
                              LoadedPanel(StoredQuestionDocs(oneActive))]
    /\ IndexerUnused
    /\ UpvotesUnused
    /\ FeedbackUnused
    /\ SimilarUnused
    /\ HandlerUnused
    /\ ParserUnused
    /\ ComponentUnused

Submits == \E a \in AdminPanels, isActive \in BOOLEAN : HandleSubmit(a, isActive)
Toggles == \E a \in AdminPanels, q \in AllQuestions : ToggleQuestionActive(a, q)
Deactivations == \E a \in AdminPanels : DeactivateSettles(a)
Additions == \E a \in AdminPanels : AddQuestionSettles(a)
AutoIndexes == \E a \in AdminPanels : AutoIndexSettles(a)
ToggleWrites == \E a \in AdminPanels : ToggleSettles(a)
AdminWriteFails == \E a \in AdminPanels : AdminWriteRejects(a)
AdminMounts == \E a \in AdminPanels : MountAdminPanel(a)
AdminFetches == \E a \in AdminPanels : FetchAllQuestions(a)

NextAdmin ==
    \/ Submits
    \/ Toggles
    \/ Deactivations
    \/ Additions
    \/ AutoIndexes
    \/ ToggleWrites
    \/ AdminWriteFails
    \/ AdminMounts
    \/ AdminFetches

SpecAdmin == InitAdmin /\ [][NextAdmin]_vars
(***************************************************************************)
(* The feedback component: handleRequestFeedback of AIFeedbackSection and  *)
(* AIFeedbackModal (the same code in both).  The handler reads the useState*)
(* values of the render it was created in (component.rendered); state      *)
(* updates made inside the click handler are rendered before the next      *)
(* event is dispatched, updates made after an await are rendered by a      *)
(* later step.  Each handler run has its own generateFeedback call (a      *)
(* member of Procs).                                                       *)
(***************************************************************************)
\* the user of the component (useAuth), who wrote the answer
ComponentUser == OwnerOf(component.answerId)

\* a handler without the test of loading
HandleRequestFeedbackUnguarded(p) ==
    /\ component.run[p] = "none"
    /\ ~InFlight(p)
    /\ IF ~component.user
       THEN /\ component' = [component EXCEPT !.returnedEarly = FALSE]
            /\ UNCHANGED req
       ELSE IF TooShort(UserAnswerOf(component.answerId))
       THEN LET state == [component.state EXCEPT !.error = "TooBrief"]
            IN  /\ component' = [component EXCEPT !.state = state,
                                                  !.rendered = state,
                                                  !.returnedEarly = FALSE]
                /\ UNCHANGED req
       ELSE LET state == [component.state EXCEPT !.loading = TRUE,
                                                 !.error = NoError]
            IN  /\ component' = [component EXCEPT !.state = state,
                                                  !.rendered = state,
                                                  !.run[p] = "generateFeedback",
                                                  !.returnedEarly = FALSE]
                /\ req' = [req EXCEPT ![p] = [IdleReq EXCEPT
                                                 !.pc = "getDocs",
                                                 !.answerId = component.answerId,
                                                 !.userId = ComponentUser]]
    /\ UNCHANGED componentRest

\* handleRequestFeedback up to its await: if (!user || loading) return; the
\* length check; setLoading(true), setError(null); generateFeedback is called
HandleRequestFeedback(p) ==
    /\ component.run[p] = "none"
    /\ ~InFlight(p)
    /\ IF ~component.user \/ component.rendered.loading
       THEN /\ component' = [component EXCEPT
                                !.returnedEarly = component.rendered.loading]
            /\ UNCHANGED req
       ELSE IF TooShort(UserAnswerOf(component.answerId))
       THEN LET state == [component.state EXCEPT !.error = "TooBrief"]
            IN  /\ component' = [component EXCEPT !.state = state,
                                                  !.rendered = state,
                                                  !.returnedEarly = FALSE]
                /\ UNCHANGED req
       ELSE LET state == [component.state EXCEPT !.loading = TRUE,
                                                 !.error = NoError]
            IN  /\ component' = [component EXCEPT !.state = state,
                                                  !.rendered = state,
                                                  !.run[p] = "generateFeedback",
                                                  !.returnedEarly = FALSE]
                /\ req' = [req EXCEPT ![p] = [IdleReq EXCEPT
                                                 !.pc = "getDocs",
                                                 !.answerId = component.answerId,
                                                 !.userId = ComponentUser]]
    /\ UNCHANGED componentRest

\* generateFeedback resolved: setFeedback(newFeedback); fetchRemainingRequests
\* is awaited
GenerateFeedbackResolved(p) ==
    /\ component.run[p] = "generateFeedback"
    /\ req[p].pc = "done"
    /\ req[p].result.kind = "ok"
    /\ component' = [component EXCEPT !.state.feedback = req[p].result.id,
                                      !.run[p] = "fetchRemainingRequests"]
    /\ UNCHANGED req
    /\ UNCHANGED componentRest

\* generateFeedback rejected: setError(err.message), then setLoading(false)
GenerateFeedbackRejected(p) ==
    /\ component.run[p] = "generateFeedback"
    /\ req[p].pc = "done"
    /\ req[p].result.kind # "ok"
    /\ component' = [component EXCEPT !.state.error = req[p].result.kind,
                                      !.state.loading = FALSE,
                                      !.run[p] = "none"]
    /\ UNCHANGED req
    /\ UNCHANGED componentRest

\* fetchRemainingRequests settles: setRemaining(stats.remainingToday), then
\* the finally block: setLoading(false)
FetchRemainingRequests(p) ==
    /\ component.run[p] = "fetchRemainingRequests"
    /\ LET remainingToday ==
              IF IsUserAdmin(EmailOf(ComponentUser))
              THEN ADMIN_REMAINING
              ELSE RemainingToday(dailyLimits[LimitKey(ComponentUser, today)])
       IN  component' = [component EXCEPT !.state.remaining = remainingToday,
                                          !.state.loading = FALSE,
                                          !.run[p] = "none"]
    /\ UNCHANGED req
    /\ UNCHANGED componentRest

\* React renders the state updates made after an await
Render ==
    /\ component.rendered # component.state
    /\ component' = [component EXCEPT !.rendered = component.state]
    /\ UNCHANGED req
    /\ UNCHANGED componentRest

InitComponent ==
    /\ today = 1
    /\ \E n \in PriorGenerations :
          /\ dailyLimits = EarlierLimits(n)
          /\ aiFeedback = EarlierFeedback(n)
    /\ req = [p \in Procs |-> IdleReq]
    /\ faults = 0
    /\ \E a \in AnswerIds, signedIn \in BOOLEAN :
          component = MountedComponent(a, signedIn)
    /\ SimilarUnused
    /\ HandlerUnused
    /\ ParserUnused
    /\ IndexerUnused
    /\ UpvotesUnused
    /\ AdminUnused

RequestClicks == \E p \in Procs : HandleRequestFeedback(p)
Resolutions == \E p \in Procs : GenerateFeedbackResolved(p)
Rejections == \E p \in Procs : GenerateFeedbackRejected(p)
RemainingFetches == \E p \in Procs : FetchRemainingRequests(p)

NextComponent ==
    \/ RequestClicks
    \/ Resolutions
    \/ Rejections
    \/ RemainingFetches
    \/ Render
    \/ Steps

SpecComponent == InitComponent /\ [][NextComponent]_vars

TypeOK ==
    /\ today \in Days
    /\ \A k \in Users \X Days : dailyLimits[k].requestCount \in 0..(DAILY_LIMIT + Cardinality(Procs))
    /\ \A p \in Procs : req[p].writes \in 0..2

(***************************************************************************)
(* Observations used by the properties.                                    *)
(***************************************************************************)
Done(p)       == req[p].pc = "done"
Succeeded(p)  == Done(p) /\ req[p].result.kind = "ok"
\* the call went through the model and stored a new document
Created(p)    == Succeeded(p) /\ req[p].calledModel
\* the call returned the document it found
Cached(p)     == Succeeded(p) /\ ~req[p].calledModel
Failed(p, kind) == Done(p) /\ req[p].result.kind = kind

\* the answer's text has fewer than 50 characters once trimmed
TrimmedBelowMinimum(answerId) == TrimLength(UserAnswerOf(answerId)) < MIN_ANSWER_LENGTH

RecordWithId(id) == {r \in aiFeedback : r.id = id}

RequestCount(userId, date) == dailyLimits[LimitKey(userId, date)].requestCount

(***************************************************************************)
(* C1: when generateFeedback is called again for an answerId after an      *)
(* earlier call for it has succeeded (calls not overlapping), both calls   *)
(* return the same stored document, that document is the only one stored   *)
(* for the answerId, and at most one of the calls went to the model and    *)
(* incremented the daily count.                                            *)
(***************************************************************************)
IdempotentSequentialCalls ==
    /\ \A p \in Procs :
         Succeeded(p) =>
             /\ MatchingFeedback(req[p].answerId) = RecordWithId(req[p].result.id)
             /\ Cardinality(MatchingFeedback(req[p].answerId)) = 1
    /\ \A p, q \in Procs :
         (p # q /\ Succeeded(p) /\ Succeeded(q) /\ req[p].answerId = req[q].answerId) =>
             /\ req[p].result.id = req[q].result.id
             /\ ~(req[p].charged /\ req[q].charged)
             /\ ~(req[p].calledModel /\ req[q].calledModel)

\* a first call generated and stored (one increment), a second returned the
\* same document without a write; the user's count is 1
IdempotentSequentialCallsWitness ==
    \E p, q \in Procs :
        /\ p # q
        /\ req[p].answerId = "a1" /\ req[q].answerId = "a1"
        /\ Created(p) /\ req[p].charged /\ req[p].writes = 2
        /\ Cached(q) /\ req[q].writes = 0 /\ ~req[q].charged
        /\ req[p].result.id = req[q].result.id
        /\ today = 1 /\ RequestCount("alice", 1) = 1

(***************************************************************************)
(* C2: with calls that do not overlap, the store never holds more than one *)
(* FeedbackRecord per answerId, and no step changes or removes a stored    *)
(* record.                                                                 *)
(***************************************************************************)
AtMostOneRecordPerAnswer ==
    \A r1, r2 \in aiFeedback : r1.answerId = r2.answerId => r1 = r2

RecordsNeverChange ==
    \A r \in aiFeedback : r \in aiFeedback'

OneImmutableRecordPerAnswer ==
    /\ []AtMostOneRecordPerAnswer
    /\ [][RecordsNeverChange]_vars

\* records for two answers are stored and a later call for one of them
\* has completed
OneImmutableRecordPerAnswerWitness ==
    /\ MatchingFeedback("a1") # {}
    /\ MatchingFeedback("a2") # {}
    /\ \E p \in Procs : Cached(p) /\ req[p].answerId = "a1"

(***************************************************************************)
(* C3: two overlapping calls for one answerId that both ran the            *)
(* existing-record check before either persisted each create a document:   *)
(* whenever two calls for the same answerId have both completed by         *)
(* generating, the store holds two distinct documents for that answerId.   *)
(***************************************************************************)
DuplicateRequestsBothCreate ==
    \A p, q \in Procs :
        (p # q /\ Created(p) /\ Created(q) /\ req[p].answerId = req[q].answerId) =>
            /\ req[p].result.id # req[q].result.id
            /\ RecordWithId(req[p].result.id) # {}
            /\ RecordWithId(req[q].result.id) # {}
            /\ Cardinality(MatchingFeedback(req[p].answerId)) >= 2

\* two FeedbackRecords for one answerId
DuplicateRequestsBothCreateWitness ==
    \E p, q \in Procs :
        /\ p # q /\ Created(p) /\ Created(q)
        /\ req[p].answerId = req[q].answerId
        /\ Cardinality(MatchingFeedback(req[p].answerId)) = 2

(***************************************************************************)
(* C4: the requestCount stored for a non-privileged user and a date is     *)
(* never above the daily limit.                                            *)
(***************************************************************************)
NonAdmins == {u \in Users : ~IsUserAdmin(EmailOf(u))}

QuotaNeverExceedsLimit ==
    \A u \in NonAdmins, d \in Days : RequestCount(u, d) <= DAILY_LIMIT

(***************************************************************************)
(* C5: when the quota read of a non-privileged user's call finds today's   *)
(* requestCount at the limit (the answer had no stored record), the call   *)
(* ends there with the quota error: the model is not called, nothing is    *)
(* written and no FeedbackRecord is created.                               *)
(***************************************************************************)
QuotaReadAtLimit(p) ==
    /\ req[p].pc = "getDoc"
    /\ req'[p].pc # "getDoc"
    /\ RequestCount(req[p].userId, req[p].statsDate) >= DAILY_LIMIT

RefusedByQuota(p) ==
    /\ req'[p].pc = "done"
    /\ req'[p].result = [kind |-> "QuotaExceededError", id |-> NoId]
    /\ req'[p].remaining = 0
    /\ ~req'[p].calledModel
    /\ req'[p].writes = 0
    /\ aiFeedback' = aiFeedback
    /\ dailyLimits' = dailyLimits

ExhaustedQuotaIsRefused ==
    [][\A p \in Procs : QuotaReadAtLimit(p) => RefusedByQuota(p)]_vars

\* a call for an answer with no record, made with today's count at 3, has
\* failed with the quota error without a model call or a write
ExhaustedQuotaIsRefusedWitness ==
    \E p \in Procs :
        /\ Failed(p, "QuotaExceededError")
        /\ ~IsUserAdmin(EmailOf(req[p].userId))
        /\ RequestCount(req[p].userId, today) = DAILY_LIMIT
        /\ MatchingFeedback(req[p].answerId) = {}
        /\ ~req[p].calledModel /\ req[p].writes = 0

(***************************************************************************)
(* C6: when the model call of a request fails, the request ends with the   *)
(* generation error and that step writes nothing: the daily counts and the *)
(* stored FeedbackRecords are as before, and the request made no write.    *)
(***************************************************************************)
ModelCallFails(p) ==
    /\ req[p].pc = "generate"
    /\ req'[p].pc = "done"

FailedWithoutWrite(p) ==
    /\ req'[p].result = [kind |-> "GenerationError", id |-> NoId]
    /\ req'[p].writes = 0
    /\ ~req'[p].charged
    /\ dailyLimits' = dailyLimits
    /\ aiFeedback' = aiFeedback

ModelFailureWritesNothing ==
    [][\A p \in Procs : ModelCallFails(p) => FailedWithoutWrite(p)]_vars

\* a non-privileged user's call failed in the model call; the count the user
\* had before (1) is still there and the answer has no record
ModelFailureWritesNothingWitness ==
    \E p \in Procs :
        /\ Failed(p, "GenerationError")
        /\ req[p].userId = "alice"
        /\ req[p].calledModel /\ req[p].writes = 0
        /\ MatchingFeedback(req[p].answerId) = {}
        /\ today = 1 /\ RequestCount("alice", 1) = 1
        /\ \A q \in Procs : ~InFlight(q)

(***************************************************************************)
(* C7: a call whose trimmed userAnswer is shorter than 50 characters, for  *)
(* an answerId with no stored record, makes no model call and no store     *)
(* write.  As claimed it always fails with the validation error; in the    *)
(* code the rate-limit check comes first, so it fails with the validation  *)
(* error when the quota check allows the request and with the quota error  *)
(* when the quota is used up.                                              *)
(***************************************************************************)
ShortAnswerCall(p) ==
    /\ Done(p)
    /\ TrimmedBelowMinimum(req[p].answerId)
    /\ MatchingFeedback(req[p].answerId) = {}

ThrowsValidationError(p) ==
    /\ req[p].pc \notin {"idle", "done"}
    /\ req'[p].pc = "done"
    /\ req'[p].result.kind = "ValidationError"

QuotaReadAllows(p) ==
    /\ req[p].pc = "getDoc"
    /\ Allowed(RemainingToday(dailyLimits[LimitKey(req[p].userId, req[p].statsDate)]))

ShortAnswerQuotaReadRefuses(p) ==
    /\ req[p].pc = "getDoc"
    /\ req'[p].pc # "getDoc"
    /\ TrimmedBelowMinimum(req[p].answerId)
    /\ ~Allowed(RemainingToday(dailyLimits[LimitKey(req[p].userId, req[p].statsDate)]))

GenerationsOf(userId) == Cardinality({r \in aiFeedback : r.userId = userId})

SameCountBothGranted ==
    \A p, q \in Procs :
        ( /\ p # q
          /\ Created(p) /\ Created(q)
          /\ req[p].userId = req[q].userId
          /\ ~IsUserAdmin(EmailOf(req[p].userId))
          /\ req[p].answerId # req[q].answerId
          /\ req[p].remaining = req[q].remaining ) =>
            /\ RecordWithId(req[p].result.id) # {}
            /\ RecordWithId(req[q].result.id) # {}
            /\ req[p].charged /\ req[q].charged
            /\ GenerationsOf(req[p].userId) >= 2

\* on one day, two calls for different answers both saw one request
\* remaining, both generated, and the user has more records than the limit
SameCountBothGrantedWitness ==
    \E p, q \in Procs :
        /\ p # q
        /\ Created(p) /\ Created(q)
        /\ req[p].userId = "alice" /\ req[q].userId = "alice"
        /\ req[p].answerId # req[q].answerId
        /\ req[p].remaining = 1 /\ req[q].remaining = 1
        /\ today = 1
        /\ GenerationsOf("alice") > DAILY_LIMIT

(***************************************************************************)
(* C10: once no call is pending, a non-privileged user's requestCount      *)
(* (over the days) equals the number of that user's successful             *)
(* generations, whether or not the calls overlapped.                       *)
(***************************************************************************)
RECURSIVE CountUpTo(_, _)
CountUpTo(userId, d) ==
    IF d = 0 THEN 0 ELSE RequestCount(userId, d) + CountUpTo(userId, d - 1)

TotalCount(userId) == CountUpTo(userId, MaxDay)

CountEqualsGenerations ==
    (\A p \in Procs : ~InFlight(p)) =>
        \A u \in NonAdmins : TotalCount(u) = GenerationsOf(u)

(***************************************************************************)
(* C11: when the read of the dailyLimits document fails in                 *)
(* getUserDailyStats, the quota tracker fails open: the call sees the full *)
(* daily quota (3) as remaining and is not refused by the quota check -    *)
(* it goes on to the length check and, for a long enough answer, to the    *)
(* model - whatever count is stored.                                       *)
(***************************************************************************)
FailedQuotaReadFailsOpen ==
    \A p \in Procs :
        req[p].readFailed =>
            /\ req[p].remaining = DAILY_LIMIT
            /\ ~Failed(p, "QuotaExceededError")
            /\ (~TrimmedBelowMinimum(req[p].answerId) => req[p].calledModel)

\* a call whose quota read failed created a record although the stored count
\* had already reached the limit
FailedQuotaReadFailsOpenWitness ==
    \E p \in Procs :
        /\ req[p].readFailed
        /\ Created(p)
        /\ req[p].charged
        /\ RequestCount(req[p].userId, 1) > DAILY_LIMIT

(***************************************************************************)
(* C12: for a user whose e-mail, lower-cased, is in ADMIN_EMAILS the quota *)
(* path never looks at the stored document: once a call of that user is    *)
(* past the quota check its remaining value is at least 999 and it was not *)
(* refused, whatever requestCount is stored, and no step creates or        *)
(* changes a dailyLimits document of that user.                            *)
(***************************************************************************)
Admins == {u \in Users : ToLowerCase(EmailOf(u)) \in ADMIN_EMAILS}

\* the call has had its answer from canRequestFeedback
PastQuotaCheck(r) ==
    r.calledModel \/ r.result.kind \in {"ValidationError", "QuotaExceededError"}

AdminBypassesQuotaRecord ==
    [][\A u \in Admins :
          /\ \A d \in Days :
                dailyLimits'[LimitKey(u, d)] = dailyLimits[LimitKey(u, d)]
          /\ \A p \in Procs :
                (req'[p].userId = u /\ PastQuotaCheck(req'[p])) =>
                    /\ req'[p].remaining >= ADMIN_REMAINING
                    /\ req'[p].result.kind # "QuotaExceededError"]_vars

\* an admin (address typed in mixed case) got a record created while a
\* dailyLimits document with requestCount above the limit is stored for them
AdminBypassesQuotaRecordWitness ==
    \E p \in Procs :
        /\ req[p].userId \in Admins
        /\ EmailOf(req[p].userId) \notin ADMIN_EMAILS
        /\ Created(p)
        /\ req[p].remaining >= ADMIN_REMAINING
        /\ RequestCount(req[p].userId, 1) > DAILY_LIMIT

(***************************************************************************)
(* C13: every generateFeedback call that fails fails with one of the three *)
(* kinds ValidationError, QuotaExceededError, GenerationError; no other    *)
(* failure reaches the caller.                                             *)
(***************************************************************************)
FailureKinds == {"ValidationError", "QuotaExceededError", "GenerationError"}

OnlyTaxonomyFailures ==
    \A p \in Procs :
        (Done(p) /\ ~Succeeded(p)) => req[p].result.kind \in FailureKinds

(***************************************************************************)
(* Observations on the similar-cases panel.                                *)
(***************************************************************************)
\* the step in which a fetchSimilarCases call for q starts
LookupStarts(q) ==
    /\ lookup.pc # "fetch"
    /\ lookup'.pc # "idle"
    /\ lookup'.questionId = q
    /\ now' = now

\* the step in which the pending remote call settles as a failure
RemoteCallFails ==
    /\ lookup.pc = "fetch"
    /\ lookup'.pc = "done"
    /\ ~lookup'.remoteOk

MemoryHit(q) ==
    /\ similarCasesCache[q].present
    /\ (now - similarCasesCache[q].timestamp) < CACHE_DURATION

DurableEntry(q) == JSONParse(localStorage[q])

DurableFresh(q) ==
    /\ localStorage[q].present
    /\ (now - DurableEntry(q).timestamp) < CACHE_DURATION

DurableStale(q) ==
    /\ localStorage[q].present
    /\ ~((now - DurableEntry(q).timestamp) < CACHE_DURATION)

(***************************************************************************)
(* C14: when the remote similarity call fails while localStorage holds an  *)
(* entry for the case that is older than the TTL, the panel shows that     *)
(* stale entry and no error.                                               *)
(***************************************************************************)
StaleEntryShownWhenRemoteFails ==
    [][(RemoteCallFails /\ DurableStale(lookup.questionId)) =>
          /\ lookup'.error = NoError
          /\ lookup'.similarCases = DurableEntry(lookup.questionId).data]_vars

(***************************************************************************)
(* C15: when a lookup starts and the Map has no fresh entry for the case   *)
(* but localStorage has one (now - timestamp < TTL), the lookup ends there *)
(* with that entry, makes no remote call and copies the entry into the     *)
(* Map.                                                                    *)
(***************************************************************************)
DurableTierConsultedBeforeRemote ==
    [][\A q \in QuestionIds :
          (LookupStarts(q) /\ ~MemoryHit(q) /\ DurableFresh(q)) =>
              /\ lookup'.pc = "done"
              /\ lookup'.remoteCalls = 0
              /\ lookup'.similarCases = DurableEntry(q).data
              /\ similarCasesCache'[q] =
                    CacheEntry(DurableEntry(q).data, DurableEntry(q).timestamp)]_vars

(***************************************************************************)
(* C16: when the remote similarity call fails and neither the Map nor      *)
(* localStorage holds an entry for the case, the panel shows an error.     *)
(***************************************************************************)
ErrorShownWhenRemoteFailsWithoutCache ==
    [][(/\ RemoteCallFails
        /\ ~similarCasesCache[lookup.questionId].present
        /\ ~localStorage[lookup.questionId].present) =>
          lookup'.error # NoError]_vars

(***************************************************************************)
(* C17: a completed lookup leaves its result in the Map, stamped with the  *)
(* time the lookup started; a lookup that starts while the Map holds an    *)
(* entry for the case with now - timestamp < 24 h ends at once with the    *)
(* cached list, makes no remote call and writes nothing, and a lookup that *)
(* starts without such an entry goes to the remote call.                   *)
(***************************************************************************)
SecondLookupWithinTTLIsCacheHit ==
    [][\A q \in QuestionIds :
          /\ (lookup'.pc = "done" /\ lookup'.questionId = q) =>
                /\ similarCasesCache'[q].present
                /\ similarCasesCache'[q].data = lookup'.similarCases
                /\ similarCasesCache'[q].timestamp <= lookup'.now
          /\ LookupStarts(q) =>
                IF MemoryHit(q)
                THEN /\ lookup'.pc = "done"
                     /\ lookup'.remoteCalls = 0
                     /\ lookup'.similarCases = similarCasesCache[q].data
                     /\ UNCHANGED <<similarCasesCache, localStorage>>
                ELSE /\ lookup'.pc = "fetch"
                     /\ lookup'.remoteCalls = 1]_vars

\* a lookup 12 hours after the list was cached returned the cached, non-empty
\* list without a remote call
SecondLookupWithinTTLIsCacheHitWitness ==
    /\ lookup.pc = "done"
    /\ lookup.remoteCalls = 0
    /\ lookup.similarCases # <<>>
    /\ lookup.similarCases = similarCasesCache[lookup.questionId].data
    /\ lookup.now = similarCasesCache[lookup.questionId].timestamp + ClockStep

(***************************************************************************)
(* C18: a 200 answer of /api/similar-cases for questionId lists the        *)
(* highest-ranked matches of the index other than questionId, in rank      *)
(* order and at most topK of them; questionId itself is never listed, also *)
(* when the index ranks it first among the topK + 1 matches fetched.       *)
(***************************************************************************)
\* how many of the first i matches are cases other than q
RankAmongOthers(matches, i, q) == Cardinality({j \in 1..i : matches[j] # q})

SelfMatchExcluded ==
    apiResponse.status = 200 =>
        LET q   == apiRequest.questionId
            k   == apiRequest.topK
            ms  == apiRequest.matches
            out == apiResponse.similarCases
            n   == RankAmongOthers(ms, Len(ms), q)
        IN  /\ \A i \in 1..Len(out) : out[i] # q
            /\ Len(out) = (IF n < k THEN n ELSE k)
            /\ \A i \in 1..Len(ms) :
                  (ms[i] # q /\ RankAmongOthers(ms, i, q) <= k) =>
                      out[RankAmongOthers(ms, i, q)] = ms[i]

\* the index ranked the case itself first among topK + 1 matches and the
\* answer lists the topK others
SelfMatchExcludedWitness ==
    /\ apiResponse.status = 200
    /\ Len(apiRequest.matches) = apiRequest.topK + 1
    /\ apiRequest.matches[1] = apiRequest.questionId
    /\ Len(apiResponse.similarCases) = apiRequest.topK
    /\ apiRequest.topK > 1

(***************************************************************************)
(* Observations on the parser.                                             *)
(***************************************************************************)
\* the field parseFeedbackContent returned for section i
FieldOf(i) ==
    CASE i = 1 -> parsed.strengths
      [] i = 2 -> parsed.improvements
      [] i = 3 -> parsed.missing
      [] OTHER -> parsed.frameworks

\* the heading of section i occurs in the text
HeadingOccurs(i) == content[i].style # "absent"

\* a line under the heading of section i starts with a dash, the bullet
\* glyph or an ordinal and a dot
HasBulletLine(i) ==
    \E k \in 1..Len(BodyLines(content[i].body)) :
        LET line == BodyLines(content[i].body)[k]
        IN  \/ line[1] \in {"-", BulletGlyph}
            \/ (IsDigit(line[1]) /\ line[2] = ".")

(***************************************************************************)
(* C19: for a text with all four headings in the order of the prompt, the  *)
(* lines "- A" and "- B" under STRENGTHS and the line "1. C" under AREAS   *)
(* FOR IMPROVEMENT, the parser returns strengths ["A", "B"] and            *)
(* improvements ["C"].                                                     *)
(***************************************************************************)
ParsesBulletsOfEachSection ==
    (/\ parsed.called
     /\ \A i \in 1..4 : HeadingOccurs(i)
     /\ content[1].body = "dashes"
     /\ content[2].body = "ordinal") =>
        /\ parsed.strengths = [present |-> TRUE, items |-> <<<<"A">>, <<"B">>>>]
        /\ parsed.improvements = [present |-> TRUE, items |-> <<<<"C">>>>]

(***************************************************************************)
(* C20: each field of the result is absent when the heading of its section *)
(* does not occur in the text, and is the empty list when the heading      *)
(* occurs and no line of the section is a bullet line.                     *)
(***************************************************************************)
AbsentWithoutHeadingEmptyWithoutBullets ==
    parsed.called =>
        \A i \in 1..4 :
            /\ ~HeadingOccurs(i) => ~FieldOf(i).present
            /\ (HeadingOccurs(i) /\ ~HasBulletLine(i)) =>
                  FieldOf(i) = [present |-> TRUE, items |-> <<>>]

(***************************************************************************)
(* C24: the quota record is keyed by user and date.  When the date         *)
(* changes no record is written and no non-privileged user has a record    *)
(* for the new date; and a quota read on a date for which the user has no  *)
(* record, while the record of the date before has reached the limit,      *)
(* answers the full limit of 3, does not refuse the call and writes no     *)
(* record.                                                                 *)
(***************************************************************************)
ReachedLimitOn(userId, date) ==
    /\ date \in Days
    /\ dailyLimits[<<userId, date>>].exists
    /\ dailyLimits[<<userId, date>>].requestCount >= DAILY_LIMIT

NextDateHasFullLimit ==
    [][/\ today' # today =>
            /\ dailyLimits' = dailyLimits
            /\ \A u \in NonAdmins : ~dailyLimits'[<<u, today'>>].exists
       /\ \A p \in Procs :
            (/\ req[p].pc = "getDoc"
             /\ req'[p].pc # "getDoc"
             /\ ReachedLimitOn(req[p].userId, req[p].statsDate - 1)
             /\ ~dailyLimits[<<req[p].userId, req[p].statsDate>>].exists) =>
                /\ req'[p].remaining = DAILY_LIMIT
                /\ req'[p].result.kind # "QuotaExceededError"
                /\ dailyLimits' = dailyLimits]_vars

\* alice, at the limit on date 1, has been answered 3 by a quota read on date 2
NextDateHasFullLimitWitness ==
    \E p \in Procs :
        /\ req[p].pc = "generate"
        /\ req[p].statsDate = 2
        /\ req[p].remaining = DAILY_LIMIT
        /\ ReachedLimitOn(req[p].userId, 1)
        /\ ~dailyLimits[<<req[p].userId, 2>>].exists

(***************************************************************************)
(* C25: a completed request, successful or failed, that incremented the    *)
(* requestCount of its user has left a feedback record for its answerId    *)
(* in the store.                                                           *)
(***************************************************************************)
ChargedRequestStoredRecord ==
    \A p \in Procs :
        (Done(p) /\ req[p].charged) =>
            \E d \in aiFeedback : d.answerId = req[p].answerId

(***************************************************************************)
(* C26: calls do not overlap.  A call for an answerId that has a feedback  *)
(* record in the store makes no model call, charges no quota and writes    *)
(* nothing, whether its lookup read succeeds or fails; so no call creates  *)
(* a second record for an answerId.                                        *)
(***************************************************************************)
StoredRecordIsNeverRegenerated ==
    \A p \in Procs :
        /\ (InFlight(p) /\ \E d \in aiFeedback : d.answerId = req[p].answerId) =>
              /\ ~req[p].calledModel
              /\ ~req[p].charged
              /\ req[p].writes = 0
        /\ Created(p) => req[p].result.id[2] = 1

(***************************************************************************)
(* C27: the step in which the remote similarity call settles as a failure  *)
(* writes no entry into the Map and none into localStorage.                *)
(***************************************************************************)
FailedSearchWritesNoCacheEntry ==
    [][RemoteCallFails =>
          /\ similarCasesCache' = similarCasesCache
          /\ localStorage' = localStorage]_vars

(***************************************************************************)
(* Observations on the bulk indexer.                                       *)
(***************************************************************************)
\* a run that read the corpus has ended
BatchFinished ==
    /\ batch.pc = "done"
    /\ (batch.status = "success" \/ batch.attempts # <<>>)

(***************************************************************************)
(* C21: when a run of indexAllCases that read the corpus has ended, every  *)
(* case of the corpus has been attempted exactly once, in the order of the *)
(* corpus, whether or not some attempts failed.                            *)
(***************************************************************************)
EveryCaseAttemptedOnceInOrder ==
    BatchFinished =>
        /\ Len(batch.attempts) = Len(batch.questions)
        /\ \A k \in 1..Len(batch.attempts) : batch.attempts[k].id = batch.questions[k]

(***************************************************************************)
(* C22: when a run of indexAllCases that read the corpus has ended, its    *)
(* message reports as successful the number of cases whose indexing        *)
(* succeeded and as failed the number whose indexing failed, and the two   *)
(* add up to the number of cases in the corpus, which is the total it      *)
(* reports.                                                                *)
(***************************************************************************)
ReportedCountsMatchOutcomes ==
    BatchFinished =>
        LET m == batch.message
            successful == IF m.kind = "indexed" THEN m.total ELSE m.successCount
        IN  /\ m.kind \in {"indexed", "complete"}
            /\ successful = Cardinality(Indexed(batch.attempts))
            /\ m.failCount = Cardinality(NotIndexed(batch.attempts))
            /\ successful + m.failCount = Len(batch.questions)
            /\ m.total = Len(batch.questions)

(***************************************************************************)
(* C23: between the moment an index attempt settles, as a success or as a  *)
(* failure, and the moment the next attempt of the run starts, at least    *)
(* 300 ms pass.                                                            *)
(***************************************************************************)
DelayBetweenConsecutiveAttempts ==
    /\ \A k \in 1..(Len(batch.attempts) - 1) :
          batch.attempts[k + 1].startedAt - batch.attempts[k].settledAt >= INDEX_DELAY
    /\ (batch.pc = "indexCase" /\ batch.attempts # <<>>) =>
          batch.startedAt - batch.attempts[Len(batch.attempts)].settledAt >= INDEX_DELAY

(***************************************************************************)
(* C28: the upvotes count stored in an answer document equals the number   *)
(* of users in its upvotedBy, after any sequence of upvote toggles.        *)
(***************************************************************************)
UpvotesEqualsUpvotedBy ==
    answerDoc.upvotes = Cardinality(answerDoc.upvotedBy)

(***************************************************************************)
(* C30: at most one document of the questions collection has isActive =    *)
(* true, in every state reached by AdminPanel submissions and activation   *)
(* toggles.                                                                *)
(***************************************************************************)
AtMostOneActiveQuestion ==
    Cardinality({q \in AllQuestions : questionDocs[q] = "active"}) <= 1

(***************************************************************************)
(* C29: of the generateFeedback calls made by one mounted feedback         *)
(* component at most one is in flight, and while one is in flight no step  *)
(* starts another: a click on the request button during a pending call     *)
(* returns without calling.                                                *)
(***************************************************************************)
CallsInFlight == {p \in Procs : InFlight(p)}

OneCallInFlightPerComponent ==
    /\ [](Cardinality(CallsInFlight) <= 1)
    /\ [][CallsInFlight # {} =>
            \A p \in Procs : (req'[p].pc \notin {"idle", "done"}) => InFlight(p)]_vars

\* a click has been handled while a call was pending, and returned at once
OneCallInFlightPerComponentWitness ==
    /\ component.returnedEarly
    /\ \E p \in Procs :
          /\ InFlight(p)
          /\ component.run[p] = "generateFeedback"
          /\ req[p].calledModel

====
